---- MODULE Spec2Model ----
(***************************************************************************)
(* DMArchiver (src/dmarchiver/core.py): the crawl / parse / resume triad.  *)
(* One Crawler archives one conversation into the transcript file          *)
(* <conversation_id>.txt.  The remote service, the interrupt signal and    *)
(* the process restarts are the environment.                               *)
(***************************************************************************)
EXTENDS Integers, Sequences, FiniteSets, TLC

\* ------------------------------------------------------------------ bounds
\* The oldest message id of the conversation; with 9 the ids cross a
\* decimal-digit boundary ("9", "10", "11").
FirstId == 9
\* How many messages the conversation can grow to.
NumIds == 3
\* The largest number of entries the remote puts in one page.
PageSize == 3
\* How many crawl calls a behaviour holds.
MaxRuns == 2

\* How many thread summaries the remote can name.
NumThreads == 2
\* How many thread-list answers with has_more = true the remote serves.
MaxPages == 2

\* How many elements a rendered message holds at most.
MaxElements == 2
\* The rendered time stamps are the multiples of 1 h 1 min 1 s up to this one.
MaxStamp == 2

\* --------------------------------------------------------- program constants
\* The error code of the account-lock / rate-limit condition.
LockCode == 326

VARIABLES
    remote,        \* the remote history: remote[i] is the fragment of id FirstId+i-1
    chunk,         \* the page size the remote serves the current history with
    eot_items,     \* whether the remote's beginning-of-thread response carries items
    file,          \* the transcript file: [exists, lines]
    max_id_found,  \* Crawler._max_id_found
    pc,            \* where crawl() stands
    max_id,        \* crawl's max_id, 0 for the '0' sentinel
    conversation,  \* Conversation.tweets, in insertion order
    payload,       \* the max_entry_id of the next request, 0 when only the id is sent
    tweets,        \* json['items'] of the page being processed (its ids)
    todo,          \* the rest of ordered_tweets in _process_tweets
    conversation_set, \* conversation_set of _process_tweets
    outcome,       \* how the last crawl() call ended
    runs,          \* crawl() calls so far
    cancelled,     \* a KeyboardInterrupt arrived in the current call
    stop,          \* what ended the paging of the current call
    received,      \* the pages handed to _process_tweets in the current call
    written,       \* the ids of the entry lines the last write_conversation rendered
    settled,       \* the file a call left that paged to its end, while the remote is as then
    exception,     \* the exception that left the last crawl() call, "" when none
    error_code,    \* json['errors'][0]['code'] of the answer that ended the paging, 0 when none
    net,           \* how the network answers a media download or a t.co resolution
    \* get_threads
    t_pc,          \* where get_threads() stands
    first_request, \* its local first_request
    threads,       \* its local threads
    messages_url,  \* the max_entry_id its next request carries: [sent, value]
    t_json,        \* the last answer it read
    earlier,       \* threads as it was when that answer arrived
    requests,      \* the requests it has issued
    more_pages,    \* the answers with has_more = true the remote has served
    t_exception,   \* the exception that left get_threads(), "" when none
    \* write_conversation, one entry at a time
    tweet,         \* the entry the for loop of write_conversation is at
    file_buffer,   \* its file_buffer, as the pieces concatenated so far
    utc_offset     \* the offset of the machine's local time, in seconds

listing == <<t_pc, first_request, threads, messages_url, t_json, earlier, requests,
             more_pages, t_exception>>

rendering == <<tweet, file_buffer, utc_offset>>

vars == <<remote, chunk, eot_items, file, max_id_found, pc, max_id, conversation,
          payload, tweets, todo, conversation_set, outcome, runs, cancelled, stop,
          received, written, settled, exception, error_code, net, listing, rendering>>

Kinds == {"msg", "sys", "none", "raise"}

\* Messages whose parsing goes to the network or whose text runs over lines:
\* a text and a media element to download, a text and a card with a t.co
\* url, a text that holds one '\n'.
RichKinds == {"media", "card", "lines"}

\* What the network does with a media download or a t.co request: the answer
\* asked for, another answer (a status that is not 200, no location header),
\* or no answer (requests raises).
Nets == {"ok", "status", "transport"}

Ids == FirstId .. (FirstId + NumIds - 1)

NoFile == [exists |-> FALSE, lines |-> <<>>]

\* ------------------------------------------------------------ pure helpers
\* str(n): the decimal digits of an id, as the JSON key holds them.
RECURSIVE Digits(_)
Digits(n) == IF n < 10 THEN <<n>> ELSE Append(Digits(n \div 10), n % 10)

\* Python's str.__lt__ on two digit strings.
RECURSIVE StrLess(_, _)
StrLess(a, b) ==
    IF a = <<>> THEN b # <<>>
    ELSE IF b = <<>> THEN FALSE
    ELSE IF a[1] # b[1] THEN a[1] < b[1]
    ELSE StrLess(Tail(a), Tail(b))

\* The order sorted() compares two keys of json['items'] by: the keys are str.
KeyLess(a, b) == StrLess(Digits(a), Digits(b))

\* sorted(tweets, reverse=True)
RECURSIVE SortedReverse(_)
SortedReverse(S) ==
    IF S = {} THEN <<>>
    ELSE LET m == CHOOSE x \in S : \A y \in S \ {x} : KeyLess(y, x)
         IN  <<m>> \o SortedReverse(S \ {m})

\* list.reverse()
RECURSIVE Reverse(_)
Reverse(s) == IF s = <<>> THEN <<>> ELSE Append(Reverse(Tail(s)), Head(s))

\* OrderedDict.__setitem__: a known key keeps its place.
Put(d, e) ==
    IF \E i \in 1..Len(d) : d[i].id = e.id
    THEN [i \in 1..Len(d) |-> IF d[i].id = e.id THEN e ELSE d[i]]
    ELSE Append(d, e)

RECURSIVE PutAll(_, _)
PutAll(d, s) == IF s = <<>> THEN d ELSE PutAll(Put(d, Head(s)), Tail(s))

SeqIds(s) == {s[i].id : i \in 1..Len(s)}

\* ------------------------------------------------------------ the remote
Posted == {FirstId + i - 1 : i \in 1..Len(remote)}
Fragment(id) == remote[id - FirstId + 1]

\* The entries a request with this cursor can still see.
Older(cursor) == {i \in Posted : cursor = 0 \/ i < cursor}
\* The newest `chunk` of them.  The remote answers a request as a function of
\* the history and the cursor: its page size changes only when the history does.
Page(cursor) ==
    {i \in Older(cursor) : Cardinality({j \in Older(cursor) : j > i}) < chunk}
MinOf(S) == CHOOSE x \in S : \A y \in S : x <= y

Response(err, hmax, hmin, hitems, cursor) ==
    [errors |-> err, has_max_entry_id |-> hmax, has_min_entry_id |-> hmin,
     has_items |-> hitems, items |-> Page(cursor),
     min_entry_id |-> IF Page(cursor) = {} THEN cursor ELSE MinOf(Page(cursor))]

\* What the remote may answer to a conversation-page request: an ordinary page
\* while older entries remain, the beginning-of-thread answer (no cursor field)
\* at the end, an errors array, or an answer that misses a field.
Responses(cursor) ==
    LET last == Page(cursor) = Older(cursor)
        eot  == Page(cursor) = {} \/ (eot_items /\ last)
    IN  (IF eot THEN {Response(0, FALSE, FALSE, TRUE, cursor)}
                ELSE {Response(0, TRUE, TRUE, TRUE, cursor)})
        \cup {Response(c, TRUE, TRUE, TRUE, cursor) : c \in {LockCode, LockCode + 1}}
        \cup {Response(0, TRUE, FALSE, TRUE, cursor),
              Response(0, TRUE, TRUE, FALSE, cursor)}

\* ------------------------------------------------------------ the transcript
IsMarker(line) == line.t = "LatestTweetID"

\* Crawler._get_latest_tweet_id
LatestTweetId(f) ==
    IF ~f.exists THEN 0
    ELSE IF Len(f.lines) > 0 /\ IsMarker(f.lines[Len(f.lines)])
         THEN f.lines[Len(f.lines)].id
         ELSE 0

\* '{0} '.format(element).replace('\n', os.linesep): each '\n' of an element
\* ends the line and the rest of the entry goes on the next one.
RECURSIVE BrokenLines(_, _)
BrokenLines(e, k) ==
    IF k > Len(e.elements) THEN <<>>
    ELSE (IF e.elements[k] = "text with newline"
          THEN <<[t |-> "continuation", id |-> e.id]>> ELSE <<>>)
         \o BrokenLines(e, k + 1)

\* The lines write_conversation renders for the entries, oldest insertion last.
RECURSIVE Render(_)
Render(items) ==
    IF items = <<>> THEN <<>>
    ELSE LET e == Head(items)
         IN  (IF e.type = "str" THEN <<>> ELSE <<[t |-> e.type, id |-> e.id]>>)
             \o BrokenLines(e, 1)
             \o Render(Tail(items))

LineIds(lines) == [i \in 1..Len(lines) |-> lines[i].id]

\* Crawler._get_latest_tweet_id raises IndexError: lines[-1] of a file that
\* holds no line; only IOError is caught.
LatestTweetIdRaises(f) == f.exists /\ Len(f.lines) = 0

\* ------------------------------------------------------------ the parser
\* What _process_tweets stores for a fragment.
Parse(kind) ==
    CASE kind = "msg"   -> "DirectMessage"
      [] kind = "sys"   -> "DMConversationEntry"
      [] kind = "raise" -> "ParseError"
      [] kind = "none"  -> "str"
      [] kind = "lines" -> "DirectMessage"
      \* _parse_dm_media: a status other than 200 skips the download, an
      \* exception of session.get reaches the except: of _process_tweets
      [] kind = "media" -> IF net = "transport" THEN "ParseError" ELSE "DirectMessage"
      \* DirectMessageCard.__init__ calls expand_url: requests.get raises, or
      \* headers['location'] raises KeyError on an answer that is no redirect
      [] kind = "card"  -> IF net = "ok" THEN "DirectMessage" ELSE "ParseError"

\* The content of the entry _process_tweets stores for a fragment.
Elements(kind) ==
    CASE Parse(kind) = "str" -> <<>>
      [] Parse(kind) = "ParseError" -> <<"raw html">>
      [] Parse(kind) = "DMConversationEntry" -> <<"text">>
      [] OTHER ->
           CASE kind = "msg"   -> <<"text">>
             [] kind = "lines" -> <<"text with newline">>
             [] kind = "media" -> <<"text", "media">>
             [] kind = "card"  -> <<"text", "expanded card">>

\* conversation_set[tweet_id] = message
Entry(tweet_id, kind) ==
    [id |-> tweet_id, type |-> Parse(kind), elements |-> Elements(kind)]

\* No answer read yet.
NoAnswer ==
    [errors |-> 0, envelope |-> "none", has_threads |-> FALSE, threads |-> <<>>,
     has_more |-> "absent", has_min_entry_id |-> FALSE, min_entry_id |-> <<>>]

\* No entry handed to write_conversation yet.
NoTweet ==
    [type |-> "none", time_stamp |-> 0, author |-> "", elements |-> <<>>, text |-> ""]

RenderingInit ==
    /\ tweet = NoTweet
    /\ file_buffer = <<>>

\* get_threads() not called yet.
ListingInit ==
    /\ t_pc = "idle"
    /\ first_request = FALSE
    /\ threads = <<>>
    /\ messages_url = [sent |-> FALSE, value |-> <<>>]
    /\ t_json = NoAnswer
    /\ earlier = <<>>
    /\ requests = 0
    /\ more_pages = 0
    /\ t_exception = ""

\* A new Crawler, no transcript, no crawl() call yet.
CrawlerInit ==
    /\ file = NoFile
    /\ max_id_found = FALSE
    /\ pc = "idle"
    /\ max_id = 0
    /\ conversation = <<>>
    /\ payload = 0
    /\ tweets = {}
    /\ todo = <<>>
    /\ conversation_set = <<>>
    /\ outcome = "none"
    /\ runs = 0
    /\ cancelled = FALSE
    /\ stop = "none"
    /\ received = {}
    /\ written = <<>>
    /\ settled = [valid |-> FALSE, file |-> NoFile]
    /\ exception = ""
    /\ error_code = 0

\* An empty conversation on a remote whose network calls succeed.
Init ==
    /\ remote = <<>>
    /\ chunk \in 1..PageSize
    /\ eot_items \in BOOLEAN
    /\ net = "ok"
    /\ utc_offset = 0
    /\ CrawlerInit
    /\ ListingInit
    /\ RenderingInit

\* ------------------------------------------------------------ write-back
\* Conversation.write_conversation raises: the marker is read from the entry
\* inserted first, and a str has no tweet_id.
WriteRaises(conv) == Len(conv) > 0 /\ conv[1].type = "str"

\* write_conversation without the removal of the last line of the old file.
WriteConversationKeepLast(f, conv, mid) ==
    LET items  == Reverse(conv)
        buffer == Render(items) \o <<[t |-> "LatestTweetID", id |-> conv[1].id]>>
    IN  IF Len(items) = 0 THEN f
        ELSE IF mid # 0
             THEN [exists |-> TRUE, lines |-> f.lines \o buffer]
             ELSE [exists |-> TRUE, lines |-> buffer]

\* Conversation.write_conversation: the file it leaves.
WriteConversation(f, conv, mid) ==
    LET items  == Reverse(conv)
        buffer == Render(items) \o <<[t |-> "LatestTweetID", id |-> conv[1].id]>>
    IN  IF Len(items) = 0 THEN f
        ELSE IF mid # 0
             THEN [exists |-> TRUE,
                   lines |-> SubSeq(f.lines, 1, Len(f.lines) - 1) \o buffer]
             ELSE [exists |-> TRUE, lines |-> buffer]

\* ------------------------------------------------------------ the environment
\* A new message is posted; ids grow with time.  The remote may serve the
\* longer history with another page size.
Post ==
    /\ pc = "idle"
    /\ Len(remote) < NumIds
    /\ \E k \in Kinds : remote' = Append(remote, k)
    /\ chunk' \in 1..PageSize
    /\ settled' = [valid |-> FALSE, file |-> NoFile]
    /\ UNCHANGED <<eot_items, file, max_id_found, pc, max_id, conversation, payload,
                   tweets, todo, conversation_set, outcome, runs, cancelled, stop,
                   received, written>>
    /\ UNCHANGED <<exception, error_code, net, listing, rendering>>

\* A message is posted that holds a media element, a card or a text of two
\* lines, before the first crawl.
PostRich ==
    /\ pc = "idle"
    /\ runs = 0
    /\ Len(remote) < NumIds
    /\ \E k \in RichKinds : remote' = Append(remote, k)
    /\ chunk' \in 1..PageSize
    /\ UNCHANGED <<eot_items, file, max_id_found, pc, max_id, conversation, payload,
                   tweets, todo, conversation_set, outcome, runs, cancelled, stop,
                   received, written, settled>>
    /\ UNCHANGED <<exception, error_code, net, listing, rendering>>

\* Crawler(): a new Crawler object (a new process).
Construct ==
    /\ pc = "idle"
    /\ max_id_found = TRUE
    /\ max_id_found' = FALSE
    /\ UNCHANGED <<remote, chunk, eot_items, file, pc, max_id, conversation, payload,
                   tweets, todo, conversation_set, outcome, runs, cancelled, stop,
                   received, written, settled>>
    /\ UNCHANGED <<exception, error_code, net, listing, rendering>>

\* ------------------------------------------------------------ crawl()
\* crawl() up to the first test of the while condition.
StartCrawl ==
    /\ pc = "idle"
    /\ runs < MaxRuns
    /\ runs' = runs + 1
    /\ conversation' = <<>>
    /\ payload' = 0
    /\ tweets' = {}
    /\ todo' = <<>>
    /\ conversation_set' = <<>>
    /\ cancelled' = FALSE
    /\ received' = {}
    /\ error_code' = 0
    /\ IF LatestTweetIdRaises(file)
       THEN \* the IndexError leaves crawl() before its try
            /\ max_id' = 0
            /\ stop' = "marker read"
            /\ outcome' = "raised"
            /\ exception' = "IndexError"
            /\ pc' = "idle"
       ELSE /\ max_id' = LatestTweetId(file)
            /\ stop' = "none"
            /\ outcome' = IF outcome = "crashed" THEN "recovering" ELSE "running"
            /\ exception' = ""
            /\ pc' = IF max_id_found THEN "write" ELSE "request"
    /\ UNCHANGED <<remote, chunk, eot_items, file, max_id_found, written, settled>>
    /\ UNCHANGED <<net, listing, rendering>>

\* crawl() sending the first request again.
NextPayloadSame(json) == 0

\* payload = {'id': conversation_id, 'max_entry_id': json['min_entry_id']}
NextPayload(json) == json.min_entry_id

\* The exception crawl() and get_threads() raise on an errors array: the code
\* of the first error chooses what is printed, not what is raised.
ErrorsRaise(code) == "Exception"

\* One request of the while loop and what crawl() does with the answer, up to
\* the call of _process_tweets.
FetchPage ==
    /\ pc = "request"
    /\ \E json \in Responses(payload) :
         IF json.errors # 0
         THEN \* raise Exception: it leaves crawl()
              /\ pc' = "idle"
              /\ outcome' = "raised"
              /\ stop' = "errors"
              /\ exception' = ErrorsRaise(json.errors)
              /\ error_code' = json.errors
              /\ UNCHANGED <<payload, tweets, todo, conversation_set, received>>
         ELSE IF ~json.has_max_entry_id
         THEN \* 'Begin of thread reached'
              /\ pc' = "write"
              /\ stop' = "begin"
              /\ UNCHANGED <<payload, tweets, todo, conversation_set, received, outcome,
                             exception, error_code>>
         ELSE IF ~json.has_min_entry_id
         THEN \* KeyError on json['min_entry_id']
              /\ pc' = "idle"
              /\ outcome' = "raised"
              /\ stop' = "keyerror"
              /\ exception' = "KeyError"
              /\ UNCHANGED <<payload, tweets, todo, conversation_set, received, error_code>>
         ELSE IF ~json.has_items
         THEN \* KeyError on json['items'], the payload is already replaced
              /\ pc' = "idle"
              /\ outcome' = "raised"
              /\ stop' = "keyerror items"
              /\ exception' = "KeyError"
              /\ payload' = NextPayload(json)
              /\ UNCHANGED <<tweets, todo, conversation_set, received, error_code>>
         ELSE /\ payload' = NextPayload(json)
              /\ tweets' = json.items
              /\ todo' = SortedReverse(json.items)
              /\ conversation_set' = <<>>
              /\ received' = received \cup {json.items}
              /\ pc' = "parse"
              /\ UNCHANGED <<outcome, stop, exception, error_code>>
    /\ UNCHANGED <<remote, chunk, eot_items, file, max_id_found, max_id, conversation,
                   runs, cancelled, written, settled>>
    /\ UNCHANGED <<net, listing, rendering>>

\* KeyboardInterrupt while the request is under way: caught by crawl().
InterruptRequest ==
    /\ pc = "request"
    /\ cancelled' = TRUE
    /\ pc' = "write"
    /\ UNCHANGED <<remote, chunk, eot_items, file, max_id_found, max_id, conversation,
                   payload, tweets, todo, conversation_set, outcome, runs, stop,
                   received, written, settled>>
    /\ UNCHANGED <<exception, error_code, net, listing, rendering>>

\* ProcessTweet without the test against the stored marker.
ProcessTweetNoStop ==
    /\ pc = "parse"
    /\ todo # <<>>
    /\ conversation_set' =
           Put(conversation_set, Entry(Head(todo), Fragment(Head(todo))))
    /\ todo' = Tail(todo)
    /\ pc' = IF Tail(todo) = <<>> THEN "append" ELSE "parse"
    /\ UNCHANGED <<remote, chunk, eot_items, file, max_id, conversation, payload, tweets,
                   outcome, runs, cancelled, received, written, settled, max_id_found,
                   stop>>
    /\ UNCHANGED <<exception, error_code, net, listing, rendering>>

\* One iteration of the for loop of _process_tweets.
ProcessTweet ==
    /\ pc = "parse"
    /\ todo # <<>>
    /\ LET tweet_id == Head(todo)
       IN  IF tweet_id = max_id
           THEN \* 'Previous tweet limit found.'
                /\ max_id_found' = TRUE
                /\ stop' = "marker"
                /\ todo' = <<>>
                /\ pc' = "append"
                /\ UNCHANGED conversation_set
           ELSE /\ conversation_set' =
                       Put(conversation_set, Entry(tweet_id, Fragment(tweet_id)))
                /\ todo' = Tail(todo)
                /\ pc' = IF Tail(todo) = <<>> THEN "append" ELSE "parse"
                /\ UNCHANGED <<max_id_found, stop>>
    /\ UNCHANGED <<remote, chunk, eot_items, file, max_id, conversation, payload, tweets,
                   outcome, runs, cancelled, received, written, settled>>
    /\ UNCHANGED <<exception, error_code, net, listing, rendering>>

\* InterruptParse without the assignment to _max_id_found.
InterruptParseNoFlag ==
    /\ pc = "parse"
    /\ todo # <<>>
    /\ Head(todo) # max_id
    /\ cancelled' = TRUE
    /\ todo' = <<>>
    /\ pc' = "append"
    /\ UNCHANGED <<remote, chunk, eot_items, file, max_id, conversation, payload, tweets,
                   conversation_set, outcome, runs, stop, received, written, settled,
                   max_id_found>>
    /\ UNCHANGED <<exception, error_code, net, listing, rendering>>

\* KeyboardInterrupt inside the try of _process_tweets, while the fragment at
\* the head is parsed.
InterruptParse ==
    /\ pc = "parse"
    /\ todo # <<>>
    /\ Head(todo) # max_id
    /\ max_id_found' = TRUE
    /\ cancelled' = TRUE
    /\ todo' = <<>>
    /\ pc' = "append"
    /\ UNCHANGED <<remote, chunk, eot_items, file, max_id, conversation, payload, tweets,
                   conversation_set, outcome, runs, stop, received, written, settled>>
    /\ UNCHANGED <<exception, error_code, net, listing, rendering>>

\* KeyboardInterrupt in _process_tweets outside its try: it reaches crawl()
\* and the conversation_set is dropped.
InterruptProcess ==
    /\ pc = "parse"
    /\ cancelled' = TRUE
    /\ todo' = <<>>
    /\ conversation_set' = <<>>
    /\ pc' = "write"
    /\ UNCHANGED <<remote, chunk, eot_items, file, max_id_found, max_id, conversation,
                   payload, tweets, outcome, runs, stop, received, written, settled>>
    /\ UNCHANGED <<exception, error_code, net, listing, rendering>>

\* 'Append to the whole conversation'
AppendConversation ==
    /\ pc = "append"
    /\ conversation' = PutAll(conversation, conversation_set)
    /\ pc' = "sleep"
    /\ UNCHANGED <<remote, chunk, eot_items, file, max_id_found, max_id, payload, tweets,
                   todo, conversation_set, outcome, runs, cancelled, stop, received,
                   written, settled>>
    /\ UNCHANGED <<exception, error_code, net, listing, rendering>>

\* KeyboardInterrupt in the appending loop, after k entries.
InterruptAppend ==
    /\ pc = "append"
    /\ \E k \in 0..Len(conversation_set) :
         conversation' = PutAll(conversation, SubSeq(conversation_set, 1, k))
    /\ cancelled' = TRUE
    /\ pc' = "write"
    /\ UNCHANGED <<remote, chunk, eot_items, file, max_id_found, max_id, payload, tweets,
                   todo, conversation_set, outcome, runs, stop, received, written, settled>>
    /\ UNCHANGED <<exception, error_code, net, listing, rendering>>

\* time.sleep(delay) and the next test of the while condition.
Sleep ==
    /\ pc = "sleep"
    /\ pc' = IF max_id_found THEN "write" ELSE "request"
    /\ UNCHANGED <<remote, chunk, eot_items, file, max_id_found, max_id, conversation,
                   payload, tweets, todo, conversation_set, outcome, runs, cancelled,
                   stop, received, written, settled>>
    /\ UNCHANGED <<exception, error_code, net, listing, rendering>>

\* KeyboardInterrupt during time.sleep(delay): caught by crawl().
InterruptSleep ==
    /\ pc = "sleep"
    /\ cancelled' = TRUE
    /\ pc' = "write"
    /\ UNCHANGED <<remote, chunk, eot_items, file, max_id_found, max_id, conversation,
                   payload, tweets, todo, conversation_set, outcome, runs, stop,
                   received, written, settled>>
    /\ UNCHANGED <<exception, error_code, net, listing, rendering>>

\* The paging of the current call ended at the stored marker or at the
\* beginning of the thread, with no interrupt.
PagedToEnd == stop \in {"marker", "begin"} /\ ~cancelled

\* The end of crawl(): write_conversation, then the reset of _max_id_found.
WriteBack ==
    /\ pc = "write"
    /\ pc' = "idle"
    /\ IF WriteRaises(conversation)
       THEN /\ outcome' = "write raised"
            /\ exception' = "AttributeError"
            /\ UNCHANGED <<file, max_id_found, written, settled>>
       ELSE /\ outcome' = "returned"
            /\ exception' = ""
            /\ file' = WriteConversation(file, conversation, max_id)
            /\ written' = LineIds(Render(Reverse(conversation)))
            /\ max_id_found' = FALSE
            /\ settled' = IF ~settled.valid /\ PagedToEnd
                          THEN [valid |-> TRUE, file |-> file']
                          ELSE settled
    /\ UNCHANGED <<remote, chunk, eot_items, max_id, conversation, payload, tweets, todo,
                   conversation_set, runs, cancelled, stop, received, error_code>>
    /\ UNCHANGED <<net, listing, rendering>>

\* int(s) of a digit string.
RECURSIVE Value(_)
Value(d) == IF d = <<>> THEN 0 ELSE 10 * Value(SubSeq(d, 1, Len(d) - 1)) + d[Len(d)]

\* file_buffer of write_conversation, as lines.
Buffer(conv) ==
    Render(Reverse(conv)) \o <<[t |-> "LatestTweetID", id |-> conv[1].id]>>

\* What is on disk of a line whose write was cut short: nothing, a torn line,
\* or, for a marker line cut inside its digits, a line that still matches the
\* marker pattern with the digits that got out.
TornTails(line) ==
    {<<>>, <<[t |-> "torn", id |-> line.id]>>}
    \cup (IF IsMarker(line)
          THEN {<<[t |-> "LatestTweetID", id |-> Value(SubSeq(Digits(line.id), 1, k))]>> :
                   k \in 1..(Len(Digits(line.id)) - 1)}
          ELSE {})

\* What is on disk of a buffer whose write was cut short.
Torn(buffer) ==
    UNION {{SubSeq(buffer, 1, k) \o tail : tail \in TornTails(buffer[k + 1])} :
              k \in 0..(Len(buffer) - 1)}

\* The files a process that dies inside write_conversation can leave: the old
\* file (nothing done yet), the old file without its last line (after
\* truncate()), the emptied file (after open(filename, 'wb')), and each of
\* these followed by a cut-short buffer.
CrashFiles(f, conv, mid) ==
    {f} \cup
    {[exists |-> TRUE,
      lines |-> (IF mid # 0 THEN SubSeq(f.lines, 1, Len(f.lines) - 1) ELSE <<>>) \o t] :
        t \in Torn(Buffer(conv))}

\* The process dies inside write_conversation (kill, power loss, full disk).
\* The next call runs in a new process, with a new Crawler.
CrashWrite ==
    /\ pc = "write"
    /\ conversation # <<>>
    /\ ~WriteRaises(conversation)
    /\ file' \in CrashFiles(file, conversation, max_id)
    /\ pc' = "idle"
    /\ outcome' = "crashed"
    /\ exception' = ""
    /\ max_id_found' = FALSE
    /\ UNCHANGED <<remote, chunk, eot_items, max_id, conversation, payload, tweets, todo,
                   conversation_set, runs, cancelled, stop, received, written, settled,
                   error_code>>
    /\ UNCHANGED <<net, listing, rendering>>

Next ==
    \/ Post
    \/ Construct
    \/ StartCrawl
    \/ FetchPage
    \/ InterruptRequest
    \/ ProcessTweet
    \/ InterruptParse
    \/ InterruptProcess
    \/ AppendConversation
    \/ InterruptAppend
    \/ Sleep
    \/ InterruptSleep
    \/ WriteBack

Spec == Init /\ [][Next]_vars

\* The same program on conversations with media, cards and texts of several
\* lines, with a network that may fail.
ParseInit ==
    /\ remote = <<>>
    /\ chunk \in 1..PageSize
    /\ eot_items \in BOOLEAN
    /\ net \in Nets
    /\ utc_offset = 0
    /\ CrawlerInit
    /\ ListingInit
    /\ RenderingInit

ParseNext ==
    \/ Next
    \/ PostRich

ParseSpec == ParseInit /\ [][ParseNext]_vars

\* The same program on a machine where the process can die while it writes.
CrashNext ==
    \/ Next
    \/ CrashWrite

CrashSpec == Init /\ [][CrashNext]_vars

\* ------------------------------------------------------------ rendering
Pad2(n) == IF n < 10 THEN "0" \o ToString(n) ELSE ToString(n)

\* datetime.fromtimestamp(int(time_stamp)).strftime('%Y-%m-%d %H:%M:%S'), for
\* the instants of January 1970: the local time of the machine.
Strftime(time_stamp) ==
    LET local == time_stamp + utc_offset
    IN  "1970-01-" \o Pad2(1 + (local \div 86400)) \o " "
        \o Pad2((local % 86400) \div 3600) \o ":"
        \o Pad2((local % 3600) \div 60) \o ":"
        \o Pad2(local % 60)

\* '{0}'.format(element): the __str__ of the element classes.
Str(element) ==
    CASE element.class = "DirectMessageText"  -> element.value
      [] element.class = "DirectMessageTweet" -> "[Tweet] " \o element.value
      [] element.class = "DirectMessageCard"  ->
             "[Card-" \o element.name \o "] " \o element.value

\* The pieces the loop over tweet[1].elements adds to file_buffer.
RECURSIVE ElementPieces(_)
ElementPieces(elements) ==
    IF elements = <<>> THEN <<>>
    ELSE <<Str(Head(elements)), " ">> \o ElementPieces(Tail(elements))

\* file_buffer[:-1]: every piece list below ends with a piece of one character.
DropLast(pieces) == SubSeq(pieces, 1, Len(pieces) - 1)

\* The branch of write_conversation for a DirectMessage, without the angle
\* brackets around the author.
FormatMessageBare(m) ==
    DropLast(<<"[" \o Strftime(m.time_stamp) \o "] " \o m.author, " ">>
             \o ElementPieces(m.elements))
    \o <<"\n">>

\* The branch of write_conversation for a DirectMessage.
FormatMessage(m) ==
    DropLast(<<"[" \o Strftime(m.time_stamp) \o "] <" \o m.author \o ">", " ">>
             \o ElementPieces(m.elements))
    \o <<"\n">>

\* The branch of write_conversation for a DMConversationEntry.
FormatEntry(e) == <<"[DMConversationEntry] " \o e.text, "\n">>

\* ''.join of the pieces.
RECURSIVE Concat(_)
Concat(pieces) == IF pieces = <<>> THEN "" ELSE Head(pieces) \o Concat(Tail(pieces))

ElementSet ==
    {[class |-> "DirectMessageText", name |-> "", value |-> "hello world"],
     [class |-> "DirectMessageText", name |-> "", value |-> "see you"],
     [class |-> "DirectMessageTweet", name |-> "",
      value |-> "https://twitter.com/bob/status/1"],
     [class |-> "DirectMessageCard", name |-> "summary",
      value |-> "https://example.org/"]}

ElementLists == UNION {[1..n -> ElementSet] : n \in 0..MaxElements}

\* The entries write_conversation is handed: messages, and system entries
\* (a notice, a parse-failure fallback).
Tweets ==
    {[type |-> "DirectMessage", time_stamp |-> k * 3661, author |-> a,
      elements |-> e, text |-> ""] :
        k \in 0..MaxStamp, a \in {"alice", "bob"}, e \in ElementLists}
    \cup
    {[type |-> "DMConversationEntry", time_stamp |-> 0, author |-> "",
      elements |-> <<>>, text |-> t] :
        t \in {"alice joined the group",
               "[ParseError] Parsing of tweet '9' failed. Raw HTML: <div></div>"}}

\* The for loop of write_conversation comes to an entry.
HandEntry ==
    /\ tweet = NoTweet \/ file_buffer # <<>>
    /\ tweet' \in Tweets
    /\ file_buffer' = <<>>
    /\ UNCHANGED utc_offset
    /\ UNCHANGED <<remote, chunk, eot_items, file, max_id_found, pc, max_id, conversation,
                   payload, tweets, todo, conversation_set, outcome, runs, cancelled, stop,
                   received, written, settled, exception, error_code, net, listing>>

\* The body of the for loop: the entry is rendered into file_buffer.
RenderEntry ==
    /\ tweet # NoTweet
    /\ file_buffer = <<>>
    /\ file_buffer' = IF tweet.type = "DirectMessage"
                      THEN FormatMessage(tweet)
                      ELSE FormatEntry(tweet)
    /\ UNCHANGED <<tweet, utc_offset>>
    /\ UNCHANGED <<remote, chunk, eot_items, file, max_id_found, pc, max_id, conversation,
                   payload, tweets, todo, conversation_set, outcome, runs, cancelled, stop,
                   received, written, settled, exception, error_code, net, listing>>

\* write_conversation on one entry, on a machine east of Greenwich or on it.
RenderInit ==
    /\ remote = <<>>
    /\ chunk = 1
    /\ eot_items = FALSE
    /\ net = "ok"
    /\ utc_offset \in {0, 3600}
    /\ CrawlerInit
    /\ ListingInit
    /\ RenderingInit

RenderNext ==
    \/ HandEntry
    \/ RenderEntry

RenderSpec == RenderInit /\ [][RenderNext]_vars

\* ------------------------------------------------------------ get_threads()
ThreadIds == 1..NumThreads

\* What the remote may answer to a thread-list request: an errors array, or a
\* body that nests the list under inner.trusted or puts it under trusted, with
\* or without each of threads, has_more and min_entry_id; min_entry_id is the
\* id of the thread of the page or the empty string.  The remote serves at
\* most MaxPages answers with has_more = true.
ThreadAnswers ==
    {[NoAnswer EXCEPT !.errors = c] : c \in {LockCode, LockCode + 1}}
    \cup
    {a \in UNION {{[errors |-> 0, envelope |-> e,
                    has_threads |-> ht, threads |-> IF ht THEN <<t>> ELSE <<>>,
                    has_more |-> hm,
                    has_min_entry_id |-> hc,
                    min_entry_id |-> IF hc THEN v ELSE <<>>] :
                       e \in {"inner", "flat"}, ht \in BOOLEAN,
                       hm \in {"true", "false", "absent"},
                       hc \in BOOLEAN, v \in {<<>>, Digits(t)}} : t \in ThreadIds} :
        a.has_more = "true" => more_pages < MaxPages}

\* The except KeyError clause of get_threads: what the call keeps and raises.
OnKeyErrorRaise(collected) == [threads |-> <<>>, exception |-> "KeyError"]

OnKeyError(collected) == [threads |-> collected, exception |-> ""]

\* get_threads() reading every answer through the nested path.
EnvelopeReadNested(first) == "inner"

\* The path get_threads() reads an answer through: json['inner']['trusted']
\* while first_request is False, json['trusted'] afterwards.
EnvelopeRead(first) == IF first = FALSE THEN "inner" ELSE "flat"

\* The call of get_threads().
StartListing ==
    /\ t_pc = "idle"
    /\ requests = 0
    /\ t_pc' = "request"
    /\ UNCHANGED <<first_request, threads, messages_url, t_json, earlier, requests,
                   more_pages, t_exception>>
    /\ UNCHANGED <<remote, chunk, eot_items, file, max_id_found, pc, max_id, conversation,
                   payload, tweets, todo, conversation_set, outcome, runs, cancelled, stop,
                   received, written, settled, exception, error_code, net, rendering>>

\* One request of the while loop and what get_threads() does with the answer.
ListRequest ==
    /\ t_pc = "request"
    /\ \E json \in ThreadAnswers :
         LET found  == json.envelope = EnvelopeRead(first_request)
             caught(collected) ==
                 /\ threads' = OnKeyError(collected).threads
                 /\ t_exception' = OnKeyError(collected).exception
                 /\ t_pc' = "done"
                 /\ UNCHANGED messages_url
         IN  /\ t_json' = json
             /\ earlier' = threads
             /\ requests' = requests + 1
             /\ more_pages' = more_pages + (IF json.has_more = "true" THEN 1 ELSE 0)
             /\ IF json.errors # 0
                THEN \* raise Exception: it leaves get_threads()
                     /\ t_exception' = ErrorsRaise(json.errors)
                     /\ t_pc' = "done"
                     /\ UNCHANGED <<first_request, threads, messages_url>>
                ELSE /\ first_request' = TRUE
                     /\ IF ~found \/ ~json.has_threads
                        THEN caught(threads)
                        ELSE IF json.has_more = "absent"
                        THEN caught(threads \o json.threads)
                        ELSE IF json.has_more = "false"
                        THEN \* break
                             /\ threads' = threads \o json.threads
                             /\ t_pc' = "done"
                             /\ UNCHANGED <<messages_url, t_exception>>
                        ELSE IF ~json.has_min_entry_id
                        THEN caught(threads \o json.threads)
                        ELSE /\ threads' = threads \o json.threads
                             /\ messages_url' = [sent |-> TRUE, value |-> json.min_entry_id]
                             /\ t_pc' = "sleep"
                             /\ UNCHANGED t_exception
    /\ UNCHANGED <<remote, chunk, eot_items, file, max_id_found, pc, max_id, conversation,
                   payload, tweets, todo, conversation_set, outcome, runs, cancelled, stop,
                   received, written, settled, exception, error_code, net, rendering>>

\* time.sleep(delay) of get_threads(), then the next turn of its loop.
ListSleep ==
    /\ t_pc = "sleep"
    /\ t_pc' = "request"
    /\ UNCHANGED <<first_request, threads, messages_url, t_json, earlier, requests,
                   more_pages, t_exception>>
    /\ UNCHANGED <<remote, chunk, eot_items, file, max_id_found, pc, max_id, conversation,
                   payload, tweets, todo, conversation_set, outcome, runs, cancelled, stop,
                   received, written, settled, exception, error_code, net, rendering>>

ListNext ==
    \/ StartListing
    \/ ListRequest
    \/ ListSleep

ListSpec == Init /\ [][ListNext]_vars

\* ====================================================================
\* The claims.
\* ====================================================================
\* A crawl() call has returned through write_conversation.
Returned == pc = "idle" /\ outcome = "returned"

EntryLines(f) == {i \in 1..Len(f.lines) : f.lines[i].t \notin {"LatestTweetID", "torn", "continuation"}}
MarkerLines(f) == {i \in 1..Len(f.lines) : IsMarker(f.lines[i])}
FileIds(f) == {f.lines[i].id : i \in EntryLines(f)}
WrittenIds == {written[i] : i \in 1..Len(written)}

\* C1: after every call whose write-back completes, the transcript holds at
\* most one marker line, that line is its last one, and the id it carries is
\* the highest message id the file represents.
C1_MarkerIsHighest ==
    Returned =>
        /\ Cardinality(MarkerLines(file)) <= 1
        /\ \A i \in MarkerLines(file) :
              /\ i = Len(file.lines)
              /\ \A j \in EntryLines(file) : file.lines[j].id <= file.lines[i].id
              /\ file.lines[i].id \in FileIds(file)

\* C2: over any sequence of calls every message id is rendered at most once
\* in the transcript, and an incremental call appends no entry whose id is
\* less than or equal to the marker it read at its start.
C2_NoDuplicate ==
    /\ \A i, j \in EntryLines(file) : i # j => file.lines[i].id # file.lines[j].id
    /\ (Returned /\ max_id # 0) => \A i \in WrittenIds : i > max_id

\* C3: when the last call paged to the stored marker or to the beginning of
\* the thread, every remote message with an id up to the new marker is in the
\* transcript, also after an earlier call that an interrupt ended.  Stated for
\* the histories whose fragments all parse and for the remote whose
\* beginning-of-thread answer carries no items.
C3_NoLoss ==
    (/\ Returned /\ PagedToEnd
     /\ ~eot_items
     /\ \A k \in 1..Len(remote) : remote[k] # "none") =>
        \A i \in Posted : i <= LatestTweetId(file) => i \in FileIds(file)

\* C4: a call that follows a call that paged to its end, with no new remote
\* message in between, leaves the transcript file as that call left it.
C4_RerunIdempotent == settled.valid => file = settled.file

\* C4 witness: a second call has ended at the marker the first one wrote.
C4_Witness ==
    /\ Returned /\ settled.valid /\ runs >= 2
    /\ stop = "marker" /\ file.exists /\ Len(file.lines) > 2

\* C5: when the page holds the entry of the stored marker M, exactly the
\* entries of the page with an id numerically above M are accumulated, the
\* previous-limit-found state is set, and no request follows before write-back.
C5_IncrementalStop ==
    (stop = "marker" /\ pc # "idle") =>
        /\ pc \in {"append", "sleep", "write"}
        /\ max_id_found
        /\ pc = "append" => SeqIds(conversation_set) = {i \in tweets : i > max_id}

\* C6: the entries write-back renders are in strictly ascending id order.
C6_WrittenAscending ==
    \A i, j \in 1..Len(written) : i < j => written[i] < written[j]

\* C7: once an interrupt has arrived in the page loop, the call issues no
\* further request, and it ends only through write_conversation, which is
\* handed the conversation with every entry appended so far.
C7_CancelWritesBack ==
    /\ (cancelled /\ pc # "idle") => pc \in {"append", "sleep", "write"}
    /\ (cancelled /\ pc = "idle") =>
          /\ outcome \in {"returned", "write raised", "crashed"}
          /\ outcome = "returned" =>
                /\ written = LineIds(Render(Reverse(conversation)))
                /\ WrittenIds \subseteq FileIds(file)

\* C7 witness: an interrupted call has written the entries it had.
C7_Witness == Returned /\ cancelled /\ Len(written) > 0 /\ conversation_set # <<>>

\* C8: a call that an interrupt ended writes, of every page it received,
\* either all the entries above the marker or none, and the written ids are a
\* gapless stretch of the remote history that joins what the file held.
\* Stated for the histories whose fragments all parse.
C8_CancelWholePages ==
    (/\ Returned /\ cancelled
     /\ \A k \in 1..Len(remote) : remote[k] # "none") =>
        /\ \A p \in received :
              LET above == {i \in p : i > max_id}
              IN  above \subseteq WrittenIds \/ above \cap WrittenIds = {}
        /\ \A i \in Posted, v \in WrittenIds \cup ({max_id} \ {0}), w \in WrittenIds :
              (v < i /\ i < w) => i \in WrittenIds

\* C9: whatever failure ends the paging of a call that has processed a page,
\* write_conversation is still executed.
C9_FailureWritesBack ==
    (pc = "idle" /\ stop \in {"errors", "keyerror", "keyerror items"} /\ received # {}) =>
        outcome \in {"returned", "write raised", "crashed"}

\* C10: every fragment that raises or matches neither pattern yields one
\* fallback entry with the parse-error tag, every other fragment of the page
\* is normalized, and no such fragment ends the page loop.
C10_FallbackPerFragment ==
    /\ \A k \in 1..Len(conversation_set) :
          LET e == conversation_set[k]
          IN  e.type = CASE Fragment(e.id) = "msg" -> "DirectMessage"
                         [] Fragment(e.id) = "sys" -> "DMConversationEntry"
                         [] OTHER -> "ParseError"
    /\ (pc = "append" /\ ~cancelled /\ stop # "marker") =>
          SeqIds(conversation_set) = tweets

\* C11: an incremental write-back (a marker was read, at least one entry was
\* accumulated) removes only the last line of the old file, which is the old
\* marker, leaves every other line as it was and where it was, and appends
\* the lines of the new entries and then one marker line.
C11_IncrementalFrame ==
    [][(pc = "write" /\ outcome' = "returned" /\ max_id # 0 /\ conversation # <<>>) =>
          LET old == file.lines
              new == file'.lines
              n   == Len(old)
              appended == SubSeq(new, n, Len(new))
          IN  /\ n > 0 /\ IsMarker(old[n]) /\ old[n].id = max_id
              /\ Len(new) >= n
              /\ SubSeq(new, 1, n - 1) = SubSeq(old, 1, n - 1)
              /\ SubSeq(appended, 1, Len(appended) - 1) = Render(Reverse(conversation))
              /\ IsMarker(appended[Len(appended)])
              /\ \A i \in 1..(Len(appended) - 1) : ~IsMarker(appended[i])]_vars

\* C11 witness: an incremental write-back has appended entries to a file that
\* held entries before.
C11_Witness ==
    /\ Returned /\ max_id # 0 /\ Len(written) > 0
    /\ Len(file.lines) > Len(written) + 1

\* C12: a process death inside write-back leaves a transcript with at most one
\* marker line, and that line carries an id the writer meant (the marker it
\* read or the one it was writing); and the call that follows the death, when
\* it returns, has kept every message id the file held, holds no id twice and
\* ends with the only marker line of the file.
C12_CrashSafe ==
    [][/\ outcome' = "crashed" =>
            /\ Cardinality(MarkerLines(file')) <= 1
            /\ \A i \in MarkerLines(file') :
                  file'.lines[i].id \in {max_id, conversation[1].id}
       /\ (outcome = "recovering" /\ outcome' = "returned") =>
            /\ FileIds(file) \subseteq FileIds(file')
            /\ \A i, j \in EntryLines(file') :
                  i # j => file'.lines[i].id # file'.lines[j].id
            /\ MarkerLines(file') = {Len(file'.lines)} \ {0}
            /\ file'.exists]_vars

\* C13: reading the marker never raises, whatever the file holds, and while a
\* call runs its max_id is the id of the final line when the file exists and
\* that line is a marker, and the '0' sentinel in every other case (no file,
\* a file with no line, a final line that is no marker).
C13_ReadMarkerTotal ==
    /\ stop # "marker read"
    /\ pc # "idle" =>
          max_id = IF file.exists /\ Len(file.lines) > 0
                      /\ IsMarker(file.lines[Len(file.lines)])
                   THEN file.lines[Len(file.lines)].id
                   ELSE 0

\* C14: once an answer with no errors array and no min_entry_id has been read
\* (stop is "begin" when it has no max_entry_id either, "keyerror" when it has
\* one), the paging has ended without an exception and the call is at
\* write-back or has been through it.
C14_MissingCursorIsBegin ==
    stop \in {"begin", "keyerror"} =>
        /\ exception # "KeyError"
        /\ \/ pc = "write"
           \/ pc = "idle" /\ outcome \in {"returned", "write raised", "crashed"}

\* C15: get_threads() issues at most one request more than the remote has
\* served answers with has_more = true, and it goes on to another request
\* only after an answer that has has_more = true and a min_entry_id that is
\* not empty.
C15_ListingStops ==
    /\ requests <= more_pages + 1
    /\ t_pc = "sleep" =>
          /\ t_json.has_more = "true"
          /\ t_json.has_min_entry_id
          /\ t_json.min_entry_id # <<>>

\* C16: an errors array ends get_threads() and the paging of crawl() with an
\* exception, and the exception an error code other than the lock code leads
\* to is not the one the lock code leads to.
C16_ErrorKinds ==
    /\ (pc = "idle" /\ stop = "errors") =>
          /\ exception # ""
          /\ error_code # LockCode => exception # ErrorsRaise(LockCode)
    /\ (t_pc = "done" /\ t_json.errors # 0) =>
          /\ t_exception # ""
          /\ t_json.errors # LockCode => t_exception # ErrorsRaise(LockCode)

\* The last answer get_threads() read has no errors array and misses a field
\* the code reads from it.
ListingDrift ==
    /\ t_json.errors = 0
    /\ \/ t_json.envelope # (IF requests = 1 THEN "inner" ELSE "flat")
       \/ ~t_json.has_threads
       \/ t_json.has_more = "absent"
       \/ t_json.has_more = "true" /\ ~t_json.has_min_entry_id

Accumulated ==
    {conversation_set[k] : k \in 1..Len(conversation_set)}
    \cup {conversation[k] : k \in 1..Len(conversation)}

\* The page loop has gone through the whole page.
PageDone == (pc = "append" /\ ~cancelled /\ stop # "marker") =>
                SeqIds(conversation_set) = tweets

\* C18: when the download of a media element fails, by a status that is not
\* success or by an exception of the transport, the message is accumulated as
\* a message with its text and its media element, and the page loop goes on
\* to the end of the page.
C18_MediaFailureKeepsMessage ==
    /\ net # "ok" =>
          \A e \in Accumulated :
              Fragment(e.id) = "media" =>
                  e.type = "DirectMessage" /\ e.elements = <<"text", "media">>
    /\ PageDone

\* C19: when the resolution of the short url of a card fails, the message is
\* accumulated as a message with its text and a card that carries the short
\* url, and the page loop goes on to the end of the page.
C19_CardFailureKeepsShortUrl ==
    /\ net # "ok" =>
          \A e \in Accumulated :
              Fragment(e.id) = "card" =>
                  e.type = "DirectMessage" /\ e.elements = <<"text", "short card">>
    /\ PageDone

\* C20: after the write-back of n entries into a file that did not exist the
\* file holds n + 1 lines.  Stated for the conversations of which every
\* fragment yields a message, a system entry or a fallback entry.
C20_OneLinePerEntry ==
    (/\ Returned /\ max_id = 0 /\ conversation # <<>>
     /\ \A k \in 1..Len(conversation) : conversation[k].type # "str") =>
        Len(file.lines) = Len(conversation) + 1

\* The elements of a message, each after one space.
RECURSIVE Joined(_)
Joined(elements) ==
    IF elements = <<>> THEN ""
    ELSE " " \o Str(Head(elements)) \o Joined(Tail(elements))

\* C21: a message is rendered as the bracketed time stamp, one space, the
\* author as it is, and each element after one space, with no space at the
\* end of the line; a system entry as [DMConversationEntry], one space and
\* its text.
C21_LineShape ==
    file_buffer # <<>> =>
        Concat(file_buffer) =
            IF tweet.type = "DirectMessage"
            THEN "[" \o Strftime(tweet.time_stamp) \o "] " \o tweet.author
                 \o Joined(tweet.elements) \o "\n"
            ELSE "[DMConversationEntry] " \o tweet.text \o "\n"

\* C21 amended: as C21, with the author between angle brackets.
C21_LineShapeAngle ==
    file_buffer # <<>> =>
        Concat(file_buffer) =
            IF tweet.type = "DirectMessage"
            THEN "[" \o Strftime(tweet.time_stamp) \o "] <" \o tweet.author \o ">"
                 \o Joined(tweet.elements) \o "\n"
            ELSE "[DMConversationEntry] " \o tweet.text \o "\n"

\* C21 witness: the line of alice's message with the text hello world and a
\* second element.
C21_Witness ==
    /\ file_buffer # <<>>
    /\ tweet.type = "DirectMessage" /\ tweet.author = "alice"
    /\ Len(tweet.elements) = 2 /\ tweet.elements[1].value = "hello world"

\* C22: the entries of a page wait for the normalizer in descending numeric
\* order of their ids, and the entries handled before the marker entry are
\* the ones of the page with a greater id.
C22_NumericDescending ==
    /\ pc = "parse" => \A i, j \in 1..Len(todo) : i < j => todo[i] > todo[j]
    /\ (pc = "append" /\ stop = "marker") =>
          \A i \in tweets : i > max_id <=> i \in SeqIds(conversation_set)

\* C23: get_threads() reads its first answer, and no other, through the
\* nested path and every later one through the flat path; first_request is
\* False before the first answer and True from then on; and the threads of
\* an answer read through its path are appended to the ones of the answers
\* before.
C23_EnvelopePerRequest ==
    [][/\ first_request => first_request'
       /\ (requests' = requests + 1 /\ t_json'.errors = 0) =>
            /\ first_request = (requests > 0)
            /\ first_request'
            /\ threads' =
                  IF /\ t_json'.envelope = (IF requests = 0 THEN "inner" ELSE "flat")
                     /\ t_json'.has_threads
                  THEN threads \o t_json'.threads
                  ELSE threads]_vars

\* C23 witness: three answers, the first nested and the others flat, have
\* each given a thread.
C23_Witness ==
    /\ t_pc = "done" /\ requests = 3 /\ Len(threads) = 3
    /\ t_json.envelope = "flat" /\ t_exception = ""

\* C24: the first request of a call carries no max_entry_id, and every later
\* request carries the min_entry_id of the answer before it, which is the
\* least id of the page that answer brought.
C24_CursorChain ==
    pc = "request" =>
        /\ received = {} => payload = 0
        /\ received # {} => (tweets \in received /\ tweets # {} /\ payload = MinOf(tweets))

\* C24 witness: the third request of a call is about to be sent.
C24_Witness ==
    /\ pc = "request" /\ Cardinality(received) = 2 /\ payload # 0

\* C25: at the start of every call (no answer read yet, no interrupt)
\* _max_id_found is False and the call is about to send its first request.
C25_FlagFalseAtStart ==
    (pc # "idle" /\ received = {} /\ stop = "none" /\ ~cancelled) =>
        /\ ~max_id_found
        /\ pc = "request"

\* C26: when a call that read no marker has paged to the beginning of the
\* thread, the conversation handed to write-back holds every entry of every
\* answer of the call: the pages handed to the parser and the items of the
\* answer that signalled the beginning of the thread.
C26_NothingDiscarded ==
    (pc = "write" /\ max_id = 0 /\ stop = "begin" /\ ~cancelled) =>
        /\ \A p \in received : p \subseteq SeqIds(conversation)
        /\ Page(payload) \subseteq SeqIds(conversation)

====
